---------------------------- MODULE Spec2Model ----------------------------
(***************************************************************************)
(* Sticker Maker (page.tsx): the upload state machine of Home, the         *)
(* debounced regeneration effect of ResultView, and the canvas algorithm   *)
(* of addStickerOutline.                                                   *)
(*                                                                         *)
(* Spec is the application: uploads, settings edits, timers and the        *)
(* generations they start, each generation followed through the handlers   *)
(* of addStickerOutline.  SpecOutline is one call of addStickerOutline on  *)
(* every input of a bounded set, with the drawing calls it makes.          *)
(* SpecCalls is a sequence of such calls, SpecFill one call followed pixel  *)
(* by pixel on small cutouts, SpecSettings the controls of one ResultView.  *)
(*                                                                         *)
(* Numbers that the program holds as fractions are held in fixed point:    *)
(* a wave amplitude in units of 1/AmpScale, masterAmp in units of          *)
(* 1/MasterScale, a wave frequency in units of 1/FreqScale (the steps of   *)
(* the sliders that edit them), a sine in units of 1/SinScale.             *)
(***************************************************************************)
EXTENDS Integers, Sequences, FiniteSets, TLC

VARIABLES
    state,        \* Home: the ProcessingState
    proc,         \* Home.processImage: position of the run in progress
    uploads,      \* number of processImage runs that created an original URL
    subs,         \* runs whose progress callback is subscribed
    live,         \* object URLs created and not revoked
    revoked,      \* object URLs revoked
    settings,     \* ResultView: the settings state
    stickerUrl,   \* ResultView: the committed sticker URL (NoUrl for null)
    regenerating, \* ResultView: the regenerating flag
    debounceRef,  \* ResultView: debounceRef.current, a timer (0 for null)
    gens,         \* one record per run of the regeneration effect
    committed,    \* history: every URL ever committed to stickerUrl
    args,         \* addStickerOutline: the call's cutout image and settings
    apc,          \* addStickerOutline: position of the call
    canvas,       \* addStickerOutline: the canvas element
    ctx,          \* addStickerOutline: the state of the 2D context
    ops,          \* addStickerOutline: the drawing calls made on the context
    result,       \* addStickerOutline: the state of the returned promise
    cause,        \* history: what the browser answered to the call
    runs          \* history: the calls of addStickerOutline that are over

callVars == <<args, apc, canvas, ctx, ops, result, cause, runs>>
vars == <<state, proc, uploads, subs, live, revoked,
          settings, stickerUrl, regenerating, debounceRef, gens, committed,
          args, apc, canvas, ctx, ops, result, cause, runs>>

---------------------------------------------------------------------------
(* Bounds of the model *)

\* processImage runs in one behaviour
MaxUploads == 2
\* runs of the regeneration effect in one behaviour
MaxGens == 2
\* the outline widths of the calls of addStickerOutline checked one by one
MaxWidth == 8
\* slider steps by which one field is raised when two settings are compared
MaxRaise == 3
\* calls of addStickerOutline followed one after the other
MaxCalls == 3
\* settings edits followed on one ResultView
MaxEdits == 3

---------------------------------------------------------------------------
(* Fixed-point scales *)

AmpScale == 20
MasterScale == 10
FreqScale == 2

---------------------------------------------------------------------------
(* Types and constants of the program *)

OUTLINE_STYLES == {"solid", "wobbly", "chaotic", "wavy"}
SHADOW_STYLES == {"none", "soft", "hard", "float"}

WaveParams(f, a) == [freq |-> f, amp |-> a]

\* WAVE_DEFAULTS: freq in halves, amp in twentieths, masterAmp in tenths
WAVE_DEFAULTS ==
    [wobbly  |-> [wave1 |-> WaveParams(4, 24), wave2 |-> WaveParams(7, 16),
                  wave3 |-> WaveParams(14, 6), masterAmp |-> 20],
     chaotic |-> [wave1 |-> WaveParams(8, 30), wave2 |-> WaveParams(18, 24),
                  wave3 |-> WaveParams(34, 16), masterAmp |-> 30],
     wavy    |-> [wave1 |-> WaveParams(3, 36), wave2 |-> WaveParams(5, 12),
                  wave3 |-> WaveParams(10, 4), masterAmp |-> 15]]

DEFAULT_SETTINGS ==
    [outlineWidth |-> 8,
     outlineColor |-> "#ffffff",
     outlineStyle |-> "solid",
     wave1        |-> WAVE_DEFAULTS.wobbly.wave1,
     wave2        |-> WAVE_DEFAULTS.wobbly.wave2,
     wave3        |-> WAVE_DEFAULTS.wobbly.wave3,
     masterAmp    |-> WAVE_DEFAULTS.wobbly.masterAmp,
     shadowStyle  |-> "none"]

\* The messages of the three rejections of addStickerOutline
ErrContext == "Canvas context unavailable"
ErrBlob == "Failed to create blob"
ErrLoad == "Failed to load image"

---------------------------------------------------------------------------
(* Object URLs *)

NoUrl == <<"null", 0>>
OriginalUrl(n) == <<"original", n>>
CutoutUrl(n) == <<"cutout", n>>
\* the URL that generation g's addStickerOutline creates from its blob
OutputUrl(g) == <<"sticker", g>>

\* URL.createObjectURL / URL.revokeObjectURL on the pair <<live, revoked>>
CreateObjectURL(reg, u) == <<reg[1] \cup {u}, reg[2]>>
RevokeObjectURL(reg, u) ==
    IF u \in reg[1] THEN <<reg[1] \ {u}, reg[2] \cup {u}>> ELSE reg

---------------------------------------------------------------------------
(* ResultView: the regeneration effect *)

Mounted == state.status = "done"

\* clearTimeout(t): a timer that has not fired yet never fires
ClearTimeout_Noop(gs, t) == gs
ClearTimeout(gs, t) ==
    IF t \in 1..Len(gs) /\ gs[t].phase = "pending"
    THEN [gs EXCEPT ![t].phase = "cleared"]
    ELSE gs

\* A cleanup that clears the timer and leaves cancelled as it is
Cleanup_NoCancel(gs, ref) == IF gs = <<>> THEN gs ELSE ClearTimeout(gs, ref)
\* The cleanup of the latest effect run: cancelled = true, then
\* if (debounceRef.current) clearTimeout(debounceRef.current)
Cleanup(gs, ref) ==
    IF gs = <<>> THEN gs
    ELSE ClearTimeout([gs EXCEPT ![Len(gs)].cancelled = TRUE], ref)

\* The body of the effect for settings value s in ResultView instance n:
\* let cancelled = false; clear the timer in debounceRef; arm a new one
NewGen(n, s) ==
    [run |-> n, settings |-> s, cancelled |-> FALSE, phase |-> "pending",
     url |-> NoUrl, err |-> ""]

\* An effect whose generations all read one shared settings object
RunEffect_SharedSettings(gs, ref, n, s) ==
    LET cleared == ClearTimeout(gs, ref)
    IN  Append([g \in 1..Len(cleared) |-> [cleared[g] EXCEPT !.settings = s]],
               NewGen(n, s))
RunEffect(gs, ref, n, s) == Append(ClearTimeout(gs, ref), NewGen(n, s))

\* setSettings(next) on a mounted ResultView: React re-renders, runs the
\* cleanup of the previous effect run and then the effect again (every
\* updater of set() returns a new object, so the dependency always changes)
SetSettings(next) ==
    /\ UNCHANGED callVars
    /\ Mounted
    /\ settings' = next
    /\ gens' = RunEffect(Cleanup(gens, debounceRef), debounceRef,
                         state.original[2], next)
    /\ debounceRef' = Len(gens) + 1
    /\ UNCHANGED <<state, proc, uploads, subs, live, revoked,
                   stickerUrl, regenerating, committed>>

\* set(key, value): setSettings((s) => ({ ...s, [key]: value }))
set(s, key, value) == [s EXCEPT ![key] = value]

\* The values the model's user picks on the controls
WidthChoices == {0, 8}
StyleChoices == {"solid", "wobbly"}
ShadowChoices == {"float"}

SetOutlineWidth(v) == SetSettings(set(settings, "outlineWidth", v))

SetShadowStyle(v) == SetSettings(set(settings, "shadowStyle", v))

SetOutlineColor(v) == SetSettings(set(settings, "outlineColor", v))

\* FineTuneControls, rendered while the style is not Solid: Intensity
SetMasterAmp(v) ==
    /\ settings.outlineStyle # "solid"
    /\ SetSettings(set(settings, "masterAmp", v))

\* FineTuneControls: Freq of wave key, set(key, { ...settings[key], freq: v })
SetWaveFreq(key, v) ==
    /\ settings.outlineStyle # "solid"
    /\ SetSettings(set(settings, key, [settings[key] EXCEPT !.freq = v]))

\* FineTuneControls: Amp of wave key, set(key, { ...settings[key], amp: v })
SetWaveAmp(key, v) ==
    /\ settings.outlineStyle # "solid"
    /\ SetSettings(set(settings, key, [settings[key] EXCEPT !.amp = v]))

\* Style pills that set the wave terms of the style but not masterAmp
SelectOutlineStyle_KeepsMasterAmp(v) ==
    LET s1 == set(settings, "outlineStyle", v)
        d == WAVE_DEFAULTS[v]
    IN  SetSettings(
          IF v # "solid"
          THEN set(set(set(s1, "wave1", d.wave1), "wave2", d.wave2),
                   "wave3", d.wave3)
          ELSE s1)

\* The style pills: five set() calls in one click, batched into one render
SelectOutlineStyle(v) ==
    LET s1 == set(settings, "outlineStyle", v)
        d == WAVE_DEFAULTS[v]
    IN  SetSettings(
          IF v # "solid"
          THEN set(set(set(set(s1, "wave1", d.wave1), "wave2", d.wave2),
                       "wave3", d.wave3), "masterAmp", d.masterAmp)
          ELSE s1)

\* A continuation that calls the generation again after a rejection
Rejected_Retry(g, msg) ==
    /\ gens' = IF Len(gens) < MaxGens
               THEN Append([gens EXCEPT ![g].phase = "rejected", ![g].err = msg],
                           [gens[g] EXCEPT !.phase = "pending"])
               ELSE [gens EXCEPT ![g].phase = "rejected", ![g].err = msg]
    /\ regenerating' = IF gens[g].cancelled THEN regenerating ELSE FALSE
    /\ UNCHANGED <<state, proc, uploads, subs, live, revoked,
                   settings, stickerUrl, debounceRef, committed>>

\* The continuation of the timer callback after addStickerOutline rejected:
\* console.error, then if (!cancelled) setRegenerating(false)
Rejected(g, msg) ==
    /\ gens' = [gens EXCEPT ![g].phase = "rejected", ![g].err = msg]
    /\ regenerating' = IF gens[g].cancelled THEN regenerating ELSE FALSE
    /\ UNCHANGED <<state, proc, uploads, subs, live, revoked,
                   settings, stickerUrl, debounceRef, committed>>

\* A timer callback that starts the generation without raising the flag
TimerFire_Silent(g) ==
    /\ UNCHANGED callVars
    /\ g \in 1..Len(gens)
    /\ gens[g].phase = "pending"
    /\ gens' = [gens EXCEPT ![g].phase = "loading"]
    /\ UNCHANGED <<state, proc, uploads, subs, live, revoked, regenerating,
                   settings, stickerUrl, debounceRef, committed>>

\* The debounce timer of generation g fires: setRegenerating(true), then
\* addStickerOutline(cutout, settings) creates the Image and sets its src
TimerFire(g) ==
    /\ UNCHANGED callVars
    /\ g \in 1..Len(gens)
    /\ gens[g].phase = "pending"
    /\ regenerating' = TRUE
    /\ gens' = [gens EXCEPT ![g].phase = "loading"]
    /\ UNCHANGED <<state, proc, uploads, subs, live, revoked,
                   settings, stickerUrl, debounceRef, committed>>

\* img.onerror
ImgError(g) ==
    /\ UNCHANGED callVars
    /\ g \in 1..Len(gens)
    /\ gens[g].phase = "loading"
    /\ Rejected(g, ErrLoad)

\* img.onload: the canvas work, up to the call of canvas.toBlob
ImgLoad(g, ctxOk) ==
    /\ UNCHANGED callVars
    /\ g \in 1..Len(gens)
    /\ gens[g].phase = "loading"
    /\ IF ctxOk
       THEN /\ gens' = [gens EXCEPT ![g].phase = "encoding"]
            /\ UNCHANGED <<state, proc, uploads, subs, live, revoked, settings,
                           stickerUrl, regenerating, debounceRef, committed>>
       ELSE Rejected(g, ErrContext)

\* if (cancelled) in the continuation of generation g's timer callback
IsCancelled_Never(g) == FALSE
IsCancelled(g) == gens[g].cancelled

\* if (cancelled) { URL.revokeObjectURL(url); return; }
DiscardUrl_Leak(reg, url) == reg
DiscardUrl(reg, url) == RevokeObjectURL(reg, url)

\* setStickerUrl((prev) => { if (prev) URL.revokeObjectURL(prev); return url; })
CommitUrl_KeepPrev(reg, prev) == reg
CommitUrl(reg, prev) ==
    IF prev # NoUrl THEN RevokeObjectURL(reg, prev) ELSE reg

\* The callback of canvas.toBlob with a blob: resolve(URL.createObjectURL),
\* then the continuation of the timer callback in the same task
BlobReady(g) ==
    /\ UNCHANGED callVars
    /\ g \in 1..Len(gens)
    /\ gens[g].phase = "encoding"
    /\ LET url == OutputUrl(g)
           made == CreateObjectURL(<<live, revoked>>, url)
       IN  IF IsCancelled(g)
           THEN /\ live' = DiscardUrl(made, url)[1]
                /\ revoked' = DiscardUrl(made, url)[2]
                /\ gens' = [gens EXCEPT ![g].phase = "resolved", ![g].url = url]
                /\ UNCHANGED <<stickerUrl, regenerating, committed>>
           ELSE /\ live' = CommitUrl(made, stickerUrl)[1]
                /\ revoked' = CommitUrl(made, stickerUrl)[2]
                /\ stickerUrl' = url
                /\ committed' = committed \cup {url}
                /\ regenerating' = FALSE
                /\ gens' = [gens EXCEPT ![g].phase = "resolved", ![g].url = url]
    /\ UNCHANGED <<state, proc, uploads, subs, settings, debounceRef>>

\* The callback of canvas.toBlob with null
BlobNull(g) ==
    /\ UNCHANGED callVars
    /\ g \in 1..Len(gens)
    /\ gens[g].phase = "encoding"
    /\ Rejected(g, ErrBlob)

---------------------------------------------------------------------------
(* Home: processImage and reset *)

\* Halves of a percent that the progress channel reports
ProgressChoices == {81, 99}

\* Math.round of p/2
Round2(p) == (p + 1) \div 2

HomeState(st, pr, o, c) ==
    [status |-> st, progress |-> pr, original |-> o, cutout |-> c]

\* processImage(file), up to its first await; the drop zone and the file
\* input are rendered only while the status is idle
ProcessImage(isImage) ==
    /\ state.status = "idle"
    /\ proc = "none"
    /\ IF ~isImage
       THEN UNCHANGED vars
       ELSE /\ uploads < MaxUploads
            /\ uploads' = uploads + 1
            /\ live' = CreateObjectURL(<<live, revoked>>, OriginalUrl(uploads + 1))[1]
            /\ state' = HomeState("removing-bg", 0, NoUrl, NoUrl)
            /\ proc' = "importing"
            /\ UNCHANGED <<subs, revoked, settings, stickerUrl, regenerating,
                           debounceRef, gens, committed>>
            /\ UNCHANGED callVars

\* A catch block that reports the error and keeps the original's URL
ProcessFailed_KeepsOriginal ==
    /\ state' = HomeState("error", 0, NoUrl, NoUrl)
    /\ proc' = "none"
    /\ UNCHANGED <<uploads, subs, live, revoked, settings, stickerUrl,
                   regenerating, debounceRef, gens, committed>>

\* The catch block of processImage
ProcessFailed ==
    /\ live' = RevokeObjectURL(<<live, revoked>>, OriginalUrl(uploads))[1]
    /\ revoked' = RevokeObjectURL(<<live, revoked>>, OriginalUrl(uploads))[2]
    /\ state' = HomeState("error", 0, NoUrl, NoUrl)
    /\ proc' = "none"
    /\ UNCHANGED <<uploads, subs, settings, stickerUrl, regenerating,
                   debounceRef, gens, committed>>

\* await import("rembg-webgpu") rejects
ImportFail ==
    /\ UNCHANGED callVars
    /\ proc = "importing"
    /\ ProcessFailed

\* the import resolves: subscribeToProgress, then removeBackground is called
ImportOk ==
    /\ UNCHANGED callVars
    /\ proc = "importing"
    /\ subs' = subs \cup {uploads}
    /\ proc' = "removing"
    /\ UNCHANGED <<state, uploads, live, revoked, settings, stickerUrl,
                   regenerating, debounceRef, gens, committed>>

\* A progress callback that writes the percentage whatever the status is
Progress_Unguarded(n, p) ==
    /\ UNCHANGED callVars
    /\ n \in subs
    /\ state' = HomeState("removing-bg", Round2(p), NoUrl, NoUrl)
    /\ UNCHANGED <<proc, uploads, subs, live, revoked, settings, stickerUrl,
                   regenerating, debounceRef, gens, committed>>

\* A progress update reaches the callback that run n subscribed
Progress(n, p) ==
    /\ UNCHANGED callVars
    /\ n \in subs
    /\ state' = IF state.status = "removing-bg"
                THEN HomeState("removing-bg", Round2(p), NoUrl, NoUrl)
                ELSE state
    /\ UNCHANGED <<proc, uploads, subs, live, revoked, settings, stickerUrl,
                   regenerating, debounceRef, gens, committed>>

\* removeBackground rejects
RemoveBgFail ==
    /\ UNCHANGED callVars
    /\ proc = "removing"
    /\ ProcessFailed

\* removeBackground resolves with the cutout's blob URL: unsub(), setState
\* done; Home now renders ResultView, whose state is constructed and whose
\* effect runs for the first time
RemoveBgOk ==
    /\ UNCHANGED callVars
    /\ proc = "removing"
    /\ Len(gens) < MaxGens
    /\ subs' = subs \ {uploads}
    /\ live' = CreateObjectURL(<<live, revoked>>, CutoutUrl(uploads))[1]
    /\ state' = HomeState("done", 0, OriginalUrl(uploads), CutoutUrl(uploads))
    /\ proc' = "none"
    /\ settings' = DEFAULT_SETTINGS
    /\ stickerUrl' = NoUrl
    /\ regenerating' = FALSE
    /\ gens' = RunEffect(gens, 0, uploads, DEFAULT_SETTINGS)
    /\ debounceRef' = Len(gens) + 1
    /\ UNCHANGED <<uploads, revoked, committed>>

\* reset(), from "Start over" of ResultView or "Try again" of ErrorState;
\* leaving done unmounts ResultView, which runs the effect's cleanup
Reset ==
    /\ UNCHANGED callVars
    /\ state.status \in {"done", "error"}
    /\ LET reg == IF state.status = "done"
                  THEN RevokeObjectURL(
                         RevokeObjectURL(<<live, revoked>>, state.original),
                         state.cutout)
                  ELSE <<live, revoked>>
       IN  /\ live' = reg[1]
           /\ revoked' = reg[2]
    /\ gens' = IF state.status = "done" THEN Cleanup(gens, debounceRef) ELSE gens
    /\ state' = HomeState("idle", 0, NoUrl, NoUrl)
    /\ UNCHANGED <<proc, uploads, subs, settings, stickerUrl, regenerating,
                   debounceRef, committed>>

---------------------------------------------------------------------------
(* addStickerOutline: arithmetic *)

\* const steps = 72
steps == 72
\* Math.sin and Math.cos are tabulated to 1/SinScale
SinScale == 1000
\* a frequency in units of 1/FreqScale turns the angle 2*PI*i/steps into a
\* multiple of 2*PI/TurnSteps
TurnSteps == steps * FreqScale
\* wobble, and a radius times outlineWidth, are held in units of 1/WobbleUnit
WobbleUnit == SinScale * AmpScale * MasterScale
\* wobbleExtra and pad are held in units of 1/PadUnit px
PadUnit == AmpScale * MasterScale

Max(a, b) == IF a >= b THEN a ELSE b

\* round(SinScale * Math.sin(2*PI*k/TurnSteps)), k = 0..TurnSteps-1
SinTable ==
    <<0,    44,    87,   131,   174,   216,   259,   301,   342,   383,   423,   462,
         500,   537,   574,   609,   643,   676,   707,   737,   766,   793,   819,   843,
         866,   887,   906,   924,   940,   954,   966,   976,   985,   991,   996,   999,
        1000,   999,   996,   991,   985,   976,   966,   954,   940,   924,   906,   887,
         866,   843,   819,   793,   766,   737,   707,   676,   643,   609,   574,   537,
         500,   462,   423,   383,   342,   301,   259,   216,   174,   131,    87,    44,
           0,   -44,   -87,  -131,  -174,  -216,  -259,  -301,  -342,  -383,  -423,  -462,
        -500,  -537,  -574,  -609,  -643,  -676,  -707,  -737,  -766,  -793,  -819,  -843,
        -866,  -887,  -906,  -924,  -940,  -954,  -966,  -976,  -985,  -991,  -996,  -999,
       -1000,  -999,  -996,  -991,  -985,  -976,  -966,  -954,  -940,  -924,  -906,  -887,
        -866,  -843,  -819,  -793,  -766,  -737,  -707,  -676,  -643,  -609,  -574,  -537,
        -500,  -462,  -423,  -383,  -342,  -301,  -259,  -216,  -174,  -131,   -87,   -44>>

\* round(SinScale * Math.sin(2*PI*k/TurnSteps + 1.5)), k = 0..TurnSteps-1
SinPhaseTable ==
    <<997,  1000,  1000,   998,   995,   989,   982,   973,   962,   949,   934,   917,
         899,   879,   858,   834,   810,   783,   755,   726,   695,   663,   630,   596,
         560,   523,   486,   447,   408,   367,   326,   285,   243,   200,   157,   114,
          71,    27,   -16,   -60,  -104,  -147,  -190,  -232,  -275,  -316,  -357,  -398,
        -437,  -476,  -514,  -551,  -587,  -622,  -655,  -688,  -719,  -748,  -777,  -803,
        -828,  -852,  -874,  -894,  -913,  -930,  -945,  -959,  -970,  -980,  -988,  -993,
        -997, -1000, -1000,  -998,  -995,  -989,  -982,  -973,  -962,  -949,  -934,  -917,
        -899,  -879,  -858,  -834,  -810,  -783,  -755,  -726,  -695,  -663,  -630,  -596,
        -560,  -523,  -486,  -447,  -408,  -367,  -326,  -285,  -243,  -200,  -157,  -114,
         -71,   -27,    16,    60,   104,   147,   190,   232,   275,   316,   357,   398,
         437,   476,   514,   551,   587,   622,   655,   688,   719,   748,   777,   803,
         828,   852,   874,   894,   913,   930,   945,   959,   970,   980,   988,   993>>

\* Math.sin(a * freq), Math.cos(a * freq), Math.sin(a * freq + 1.5) for
\* a * freq = 2*PI*k/TurnSteps
Sin(k) == SinTable[(k % TurnSteps) + 1]
Cos(k) == SinTable[((k + TurnSteps \div 4) % TurnSteps) + 1]
SinPhase(k) == SinPhaseTable[(k % TurnSteps) + 1]

\* wobble(a) for a = 2*PI*i/steps, in units of 1/WobbleUnit
wobble(s, i) ==
    (Sin(i * s.wave1.freq) * s.wave1.amp +
     Cos(i * s.wave2.freq) * s.wave2.amp +
     SinPhase(i * s.wave3.freq) * s.wave3.amp) * s.masterAmp

\* wobbleExtra without masterAmp
wobbleExtra_NoMasterAmp(s) ==
    IF s.outlineStyle # "solid"
    THEN s.outlineWidth * MasterScale * (s.wave1.amp + s.wave2.amp + s.wave3.amp)
    ELSE 0
\* wobbleExtra computed in every style
wobbleExtra_AnyStyle(s) ==
    s.outlineWidth * s.masterAmp * (s.wave1.amp + s.wave2.amp + s.wave3.amp)
\* in units of 1/PadUnit px
wobbleExtra(s) ==
    IF s.outlineStyle # "solid"
    THEN s.outlineWidth * s.masterAmp * (s.wave1.amp + s.wave2.amp + s.wave3.amp)
    ELSE 0

\* Math.max(w + wobbleExtra + 4, 4), in units of 1/PadUnit px
pad_Shrinks(s) ==
    Max(s.outlineWidth * PadUnit - wobbleExtra(s) + 4 * PadUnit, 4 * PadUnit)
pad(s) ==
    Max(s.outlineWidth * PadUnit + wobbleExtra(s) + 4 * PadUnit, 4 * PadUnit)

\* shadowPad counted once for each side
shadowPad_EachSide(s) == IF s.shadowStyle # "none" THEN 60 ELSE 0
shadowPad(s) == IF s.shadowStyle # "none" THEN 30 ELSE 0

\* The value assigned to canvas.width or canvas.height, in units of 1/PadUnit
canvasSize(len, s) == len * PadUnit + pad(s) * 2 + shadowPad(s) * PadUnit

\* canvas.width and canvas.height are unsigned long attributes: the number
\* assigned (never negative here) is truncated to an integer
ToUnsignedLong_Ceil(x) == (x + PadUnit - 1) \div PadUnit
\* a conversion that rounds to the nearest integer
ToUnsignedLong_Round(x) == (x + PadUnit \div 2) \div PadUnit
ToUnsignedLong(x) == x \div PadUnit

\* The radius of a stamp times outlineWidth, in units of 1/WobbleUnit px:
\* solid, r
solidRadius(s, r) == r * s.outlineWidth * WobbleUnit
\* wave, rad * Math.max(0.05, 1 + wobble(a) * scale) with scale = rad / w
\* a radius whose wobble is not scaled by the ring
waveRadius_Unscaled(s, rad, i) ==
    rad * Max((WobbleUnit \div 20) * s.outlineWidth,
              WobbleUnit * s.outlineWidth + wobble(s, i) * s.outlineWidth)
waveRadius_NoFloor(s, rad, i) ==
    rad * (WobbleUnit * s.outlineWidth + wobble(s, i) * rad)
waveRadius(s, rad, i) ==
    rad * Max((WobbleUnit \div 20) * s.outlineWidth,
              WobbleUnit * s.outlineWidth + wobble(s, i) * rad)

\* Rings that step by 2 from w: w, w - 2, ... above 0
solidRings_FromWidth(w) == [k \in 1..((w + 1) \div 2) |-> w - 2 * (k - 1)]
\* The rings of the two solid loops: w, then w - 1, w - 3, ... above 0
solidRings(w) == <<w>> \o [k \in 1..(w \div 2) |-> w - 1 - 2 * (k - 1)]
\* The rings of the two wave loops: w (unscaled wobble, which is scale 1),
\* then w, w - 2, ... above 0
waveRings(w) == <<w>> \o [k \in 1..((w + 1) \div 2) |-> w - 2 * (k - 1)]

---------------------------------------------------------------------------
(* addStickerOutline: the 2D context *)

\* The state of a new context (the defaults of the canvas API)
NewContext ==
    [globalCompositeOperation |-> "source-over", fillStyle |-> "#000000",
     shadowColor |-> "rgba(0,0,0,0)", shadowBlur |-> 0,
     shadowOffsetX |-> 0, shadowOffsetY |-> 0]

NoContext == [NewContext EXCEPT !.globalCompositeOperation = "null"]

\* A shadow branch whose Hard case makes the assignments of Soft
shadow_HardAsSoft(c, shadowStyle) ==
    CASE shadowStyle \in {"soft", "hard"} ->
           [c EXCEPT !.shadowColor = "rgba(0,0,0,0.2)", !.shadowBlur = 16,
                     !.shadowOffsetX = 0, !.shadowOffsetY = 4]
      [] shadowStyle = "float" ->
           [c EXCEPT !.shadowColor = "rgba(0,0,0,0.18)", !.shadowBlur = 28,
                     !.shadowOffsetX = 0, !.shadowOffsetY = 12]
      [] OTHER -> c
\* The shadow branch: the assignments made for each shadowStyle
shadow(c, shadowStyle) ==
    CASE shadowStyle = "soft" ->
           [c EXCEPT !.shadowColor = "rgba(0,0,0,0.2)", !.shadowBlur = 16,
                     !.shadowOffsetX = 0, !.shadowOffsetY = 4]
      [] shadowStyle = "hard" ->
           [c EXCEPT !.shadowColor = "rgba(0,0,0,0.35)", !.shadowBlur = 2,
                     !.shadowOffsetX = 3, !.shadowOffsetY = 5]
      [] shadowStyle = "float" ->
           [c EXCEPT !.shadowColor = "rgba(0,0,0,0.18)", !.shadowBlur = 28,
                     !.shadowOffsetX = 0, !.shadowOffsetY = 12]
      [] OTHER -> c

\* A canvas on which the source is placed at pad, pad: the shadow margin
\* is all on the right and at the bottom
newCanvas_ShadowMarginAfter(img, s) ==
    LET cw == ToUnsignedLong(canvasSize(img.width, s))
        ch == ToUnsignedLong(canvasSize(img.height, s))
    IN  [width |-> cw, height |-> ch, pad |-> pad(s),
         origin |-> <<cw - img.width - shadowPad(s),
                      ch - img.height - shadowPad(s)>>]
\* The canvas element after the assignments to width and height, with the
\* locals of img.onload beside it: pad, and origin, which is the position
\* cx - img.width / 2, cy - img.height / 2 that drawAt adds its offset to,
\* held doubled (cx = canvas.width / 2 may be a half)
newCanvas(img, s) ==
    LET cw == ToUnsignedLong(canvasSize(img.width, s))
        ch == ToUnsignedLong(canvasSize(img.height, s))
    IN  [width |-> cw, height |-> ch, pad |-> pad(s),
         origin |-> <<cw - img.width, ch - img.height>>]

NoCanvas == [width |-> 0, height |-> 0, pad |-> 0, origin |-> <<0, 0>>]

\* drawAt(Math.cos(a) * r, Math.sin(a) * r) for a = 2*PI*i/steps: one
\* ctx.drawImage at cx - img.width / 2 + ox, cy - img.height / 2 + oy,
\* recorded as the position at (doubled) that the offset is added to, the
\* offset in polar form (the angle index ang and the radius rw of solidRadius
\* and waveRadius), the ring of the loop that made it and the context state
\* it is drawn with
drawAt(cv, i, ring, rw, c) ==
    [op |-> "drawImage", at |-> cv.origin, ang |-> i, ring |-> ring,
     rw |-> rw, rect |-> <<>>, ctx |-> c]

\* ctx.fillRect(0, 0, canvas.width, canvas.height)
fillRect(cv, c) ==
    [op |-> "fillRect", at |-> <<0, 0>>, ang |-> 0, ring |-> 0, rw |-> 0,
     rect |-> <<0, 0, cv.width, cv.height>>, ctx |-> c]

\* canvas.toBlob(callback, "image/png")
toBlob(c) ==
    [op |-> "toBlob", at |-> <<0, 0>>, ang |-> 0, ring |-> 0, rw |-> 0,
     rect |-> <<>>, ctx |-> c]

\* The stamps of the solid branch, in the order of the loops
solidStamps(s, cv, c) ==
    LET rings == solidRings(s.outlineWidth)
    IN  [k \in 1..(steps * Len(rings)) |->
           LET r == rings[((k - 1) \div steps) + 1]
           IN  drawAt(cv, (k - 1) % steps, r, solidRadius(s, r), c)]

\* The stamps of the wave branch, in the order of the loops
waveStamps(s, cv, c) ==
    LET rings == waveRings(s.outlineWidth)
    IN  [k \in 1..(steps * Len(rings)) |->
           LET rad == rings[((k - 1) \div steps) + 1]
           IN  drawAt(cv, (k - 1) % steps, rad,
                      waveRadius(s, rad, (k - 1) % steps), c)]

\* A fill that leaves globalCompositeOperation at "source-over"
fillContext_SourceOver(s, c) == [c EXCEPT !.fillStyle = s.outlineColor]
\* globalCompositeOperation = "source-in"; fillStyle = outlineColor
fillContext(s, c) ==
    [c EXCEPT !.globalCompositeOperation = "source-in",
              !.fillStyle = s.outlineColor]

\* The drawing calls of the outline branches (at most one of them runs)
outlineOps_Always(s, cv, c) ==
    (IF s.outlineStyle = "solid"
     THEN solidStamps(s, cv, c) ELSE waveStamps(s, cv, c))
      \o <<fillRect(cv, fillContext(s, c))>>
outlineOps(s, cv, c) ==
    IF s.outlineWidth > 0
    THEN (IF s.outlineStyle = "solid"
          THEN solidStamps(s, cv, c) ELSE waveStamps(s, cv, c))
           \o <<fillRect(cv, fillContext(s, c))>>
    ELSE <<>>

\* The context after the outline branches: globalCompositeOperation is set
\* back to "source-over", fillStyle keeps the outline color
afterOutline(s, c) ==
    IF s.outlineWidth > 0 THEN [c EXCEPT !.fillStyle = s.outlineColor] ELSE c

\* A drawing on a context that is kept from the call before
drawing_ReusedContext(img, s) ==
    LET cv == newCanvas(img, s)
        c0 == IF runs # <<>> /\ runs[Len(runs)].ops # <<>>
              THEN runs[Len(runs)].ctx ELSE NewContext
    IN  outlineOps(s, cv, c0)
          \o <<drawAt(cv, 0, 0, 0, shadow(afterOutline(s, c0), s.shadowStyle))>>
\* A drawing whose shadow branch runs before the outline branches
drawing_ShadowFirst(img, s) ==
    LET cv == newCanvas(img, s)
        c0 == shadow(NewContext, s.shadowStyle)
    IN  outlineOps(s, cv, c0) \o <<drawAt(cv, 0, 0, 0, afterOutline(s, c0))>>
\* Every drawing call of img.onload, in order
drawing(img, s) ==
    LET cv == newCanvas(img, s)
        c1 == afterOutline(s, NewContext)
    IN  outlineOps(s, cv, NewContext)
          \o <<drawAt(cv, 0, 0, 0, shadow(c1, s.shadowStyle))>>

\* The context when canvas.toBlob is called: ctx.shadowColor = "transparent"
finalContext(s) ==
    [shadow(afterOutline(s, NewContext), s.shadowStyle)
       EXCEPT !.shadowColor = "transparent"]

---------------------------------------------------------------------------
(* addStickerOutline: one call *)

Pending == [state |-> "pending", value |-> <<>>]

\* img.onerror: reject(new Error("Failed to load image"))
onerror ==
    /\ apc = "loading"
    /\ apc' = "rejected"
    /\ result' = [state |-> "rejected", value |-> ErrLoad]
    /\ cause' = "onerror"
    /\ UNCHANGED <<state, proc, uploads, subs, live, revoked, settings,
                   stickerUrl, regenerating, debounceRef, gens, committed,
                   args, canvas, ctx, ops, runs>>

\* img.onload: the canvas is sized; without a 2D context the call rejects,
\* otherwise everything is drawn and canvas.toBlob is called
onload(ctxOk) ==
    /\ apc = "loading"
    /\ canvas' = newCanvas(args.img, args.settings)
    /\ IF ctxOk
       THEN /\ ops' = Append(drawing(args.img, args.settings),
                            toBlob(finalContext(args.settings)))
            /\ ctx' = finalContext(args.settings)
            /\ apc' = "encoding"
            /\ UNCHANGED <<result, cause>>
       ELSE /\ apc' = "rejected"
            /\ result' = [state |-> "rejected", value |-> ErrContext]
            /\ cause' = "getContext"
            /\ UNCHANGED <<ops, ctx>>
    /\ UNCHANGED <<state, proc, uploads, subs, live, revoked, settings,
                   stickerUrl, regenerating, debounceRef, gens, committed,
                   args, runs>>

\* A callback that reports a null blob with the message of the context
toBlobCallback_AsContext(blobOk) ==
    /\ apc = "encoding"
    /\ IF blobOk
       THEN /\ apc' = "resolved"
            /\ live' = CreateObjectURL(<<live, revoked>>, OutputUrl(Len(runs)))[1]
            /\ result' = [state |-> "resolved", value |-> OutputUrl(Len(runs))]
            /\ UNCHANGED cause
       ELSE /\ apc' = "rejected"
            /\ result' = [state |-> "rejected", value |-> ErrContext]
            /\ cause' = "toBlob"
            /\ UNCHANGED live
    /\ UNCHANGED <<state, proc, uploads, subs, revoked, settings, stickerUrl,
                   regenerating, debounceRef, gens, committed,
                   args, canvas, ctx, ops, runs>>

\* The callback of canvas.toBlob
toBlobCallback(blobOk) ==
    /\ apc = "encoding"
    /\ IF blobOk
       THEN /\ apc' = "resolved"
            /\ live' = CreateObjectURL(<<live, revoked>>, OutputUrl(Len(runs)))[1]
            /\ result' = [state |-> "resolved", value |-> OutputUrl(Len(runs))]
            /\ UNCHANGED cause
       ELSE /\ apc' = "rejected"
            /\ result' = [state |-> "rejected", value |-> ErrBlob]
            /\ cause' = "toBlob"
            /\ UNCHANGED live
    /\ UNCHANGED <<state, proc, uploads, subs, revoked, settings, stickerUrl,
                   regenerating, debounceRef, gens, committed,
                   args, canvas, ctx, ops, runs>>

---------------------------------------------------------------------------
(* The application *)

Init ==
    /\ state = HomeState("idle", 0, NoUrl, NoUrl)
    /\ proc = "none"
    /\ uploads = 0
    /\ subs = {}
    /\ live = {}
    /\ revoked = {}
    /\ settings = DEFAULT_SETTINGS
    /\ stickerUrl = NoUrl
    /\ regenerating = FALSE
    /\ debounceRef = 0
    /\ gens = <<>>
    /\ committed = {}
    /\ args = [img |-> [width |-> 0, height |-> 0], settings |-> DEFAULT_SETTINGS]
    /\ apc = "idle"
    /\ canvas = NoCanvas
    /\ ctx = NoContext
    /\ ops = <<>>
    /\ result = Pending
    /\ cause = "none"
    /\ runs = <<>>

Next ==
    \/ \E isImage \in BOOLEAN : ProcessImage(isImage)
    \/ ImportFail
    \/ ImportOk
    \/ \E n \in 1..MaxUploads, p \in ProgressChoices : Progress(n, p)
    \/ RemoveBgFail
    \/ RemoveBgOk
    \/ Reset
    \/ Len(gens) < MaxGens /\ \E v \in WidthChoices : SetOutlineWidth(v)
    \/ Len(gens) < MaxGens /\ \E v \in ShadowChoices : SetShadowStyle(v)
    \/ Len(gens) < MaxGens /\ \E v \in StyleChoices : SelectOutlineStyle(v)
    \/ \E g \in 1..MaxGens : TimerFire(g)
    \/ \E g \in 1..MaxGens : ImgError(g)
    \/ \E g \in 1..MaxGens, ctxOk \in BOOLEAN : ImgLoad(g, ctxOk)
    \/ \E g \in 1..MaxGens : BlobReady(g)
    \/ \E g \in 1..MaxGens : BlobNull(g)

Spec == Init /\ [][Next]_vars

\* The browser runs what it has scheduled: a timer that was set and not
\* cleared fires, an Image whose src was set loads or fails, and toBlob
\* calls its callback. The user's steps carry no fairness.
Fairness ==
    /\ WF_vars(\E g \in 1..MaxGens : TimerFire(g))
    /\ WF_vars(\E g \in 1..MaxGens :
                  ImgError(g) \/ \E ctxOk \in BOOLEAN : ImgLoad(g, ctxOk))
    /\ WF_vars(\E g \in 1..MaxGens : BlobReady(g) \/ BlobNull(g))

SpecLive == Spec /\ Fairness

---------------------------------------------------------------------------
(* The controls of one ResultView *)

\* The values picked on the controls, in the units of the sliders
EditWidths == {12}
EditColors == {"#ef4444"}
EditShadows == {"soft"}
EditMasterAmps == {35}
EditFreqs == {1}
EditAmps == {40}
WaveKeys == {"wave1", "wave2", "wave3"}

\* A ResultView right after it was mounted for the first upload
InitSettings ==
    /\ state = HomeState("done", 0, OriginalUrl(1), CutoutUrl(1))
    /\ proc = "none"
    /\ uploads = 1
    /\ subs = {}
    /\ live = {OriginalUrl(1), CutoutUrl(1)}
    /\ revoked = {}
    /\ settings = DEFAULT_SETTINGS
    /\ stickerUrl = NoUrl
    /\ regenerating = FALSE
    /\ debounceRef = 1
    /\ gens = <<NewGen(1, DEFAULT_SETTINGS)>>
    /\ committed = {}
    /\ args = [img |-> [width |-> 0, height |-> 0], settings |-> DEFAULT_SETTINGS]
    /\ apc = "idle"
    /\ canvas = NoCanvas
    /\ ctx = NoContext
    /\ ops = <<>>
    /\ result = Pending
    /\ cause = "none"
    /\ runs = <<>>

\* An edit is taken while fewer than MaxEdits were made
CanEdit == Len(gens) < MaxEdits + 1

NextSettings ==
    \/ CanEdit /\ \E v \in EditWidths : SetOutlineWidth(v)
    \/ CanEdit /\ \E v \in EditColors : SetOutlineColor(v)
    \/ CanEdit /\ \E v \in EditShadows : SetShadowStyle(v)
    \/ CanEdit /\ \E v \in OUTLINE_STYLES : SelectOutlineStyle(v)
    \/ CanEdit /\ \E v \in EditMasterAmps : SetMasterAmp(v)
    \/ CanEdit /\ \E key \in WaveKeys, v \in EditFreqs : SetWaveFreq(key, v)
    \/ CanEdit /\ \E key \in WaveKeys, v \in EditAmps : SetWaveAmp(key, v)

SpecSettings == InitSettings /\ [][NextSettings]_vars

---------------------------------------------------------------------------
(* One call of addStickerOutline on every input of a bounded set *)

\* The cutout images
ImgChoices == {[width |-> 100, height |-> 100], [width |-> 3, height |-> 5]}

\* Wave terms and masterAmp: the three presets, then fine-tuned values at
\* the ends of the sliders and one step off a preset
WaveChoices ==
    {WAVE_DEFAULTS.wobbly, WAVE_DEFAULTS.chaotic, WAVE_DEFAULTS.wavy,
     [wave1 |-> WaveParams(1, 0), wave2 |-> WaveParams(1, 0),
      wave3 |-> WaveParams(1, 0), masterAmp |-> 20],
     [wave1 |-> WaveParams(40, 40), wave2 |-> WaveParams(40, 40),
      wave3 |-> WaveParams(60, 40), masterAmp |-> 50],
     [wave1 |-> WaveParams(4, 25), wave2 |-> WaveParams(7, 16),
      wave3 |-> WaveParams(14, 6), masterAmp |-> 0],
     [wave1 |-> WaveParams(5, 1), wave2 |-> WaveParams(7, 3),
      wave3 |-> WaveParams(14, 6), masterAmp |-> 1]}

SettingsChoices ==
    {[outlineWidth |-> w, outlineColor |-> "#ef4444", outlineStyle |-> st,
      wave1 |-> wv.wave1, wave2 |-> wv.wave2, wave3 |-> wv.wave3,
      masterAmp |-> wv.masterAmp, shadowStyle |-> sh] :
        w \in 0..MaxWidth, st \in OUTLINE_STYLES, wv \in WaveChoices,
        sh \in SHADOW_STYLES}

\* addStickerOutline(cutoutUrl, settings) has been called: img.src is set
InitOutline ==
    /\ state = HomeState("idle", 0, NoUrl, NoUrl)
    /\ proc = "none"
    /\ uploads = 0
    /\ subs = {}
    /\ live = {}
    /\ revoked = {}
    /\ settings = DEFAULT_SETTINGS
    /\ stickerUrl = NoUrl
    /\ regenerating = FALSE
    /\ debounceRef = 0
    /\ gens = <<>>
    /\ committed = {}
    /\ args \in [img : ImgChoices, settings : SettingsChoices]
    /\ apc = "loading"
    /\ canvas = NoCanvas
    /\ ctx = NoContext
    /\ ops = <<>>
    /\ result = Pending
    /\ cause = "none"
    /\ runs = <<>>

NextOutline ==
    \/ onerror
    \/ \E ctxOk \in BOOLEAN : onload(ctxOk)
    \/ \E blobOk \in BOOLEAN : toBlobCallback(blobOk)

SpecOutline == InitOutline /\ [][NextOutline]_vars

---------------------------------------------------------------------------
(* Calls of addStickerOutline one after the other *)

\* The arguments of the calls that are followed in sequence
CallChoices ==
    {[img |-> [width |-> 3, height |-> 5],
      settings |-> [outlineWidth |-> c[1], outlineColor |-> "#ef4444",
                    outlineStyle |-> c[2],
                    wave1 |-> WAVE_DEFAULTS.wobbly.wave1,
                    wave2 |-> WAVE_DEFAULTS.wobbly.wave2,
                    wave3 |-> WAVE_DEFAULTS.wobbly.wave3,
                    masterAmp |-> WAVE_DEFAULTS.wobbly.masterAmp,
                    shadowStyle |-> c[3]]] :
        c \in {<<2, "solid", "hard">>, <<1, "wobbly", "float">>,
                <<0, "solid", "none">>}}

\* addStickerOutline(cutoutUrl, settings) is called after a call that is
\* over: a new promise, a new Image, and in img.onload a new canvas
callAgain(a) ==
    /\ apc \in {"resolved", "rejected"}
    /\ Len(runs) < MaxCalls - 1
    /\ runs' = Append(runs, [args |-> args, canvas |-> canvas, ctx |-> ctx,
                             ops |-> ops, result |-> result])
    /\ args' = a
    /\ apc' = "loading"
    /\ canvas' = NoCanvas
    /\ ctx' = NoContext
    /\ ops' = <<>>
    /\ result' = Pending
    /\ cause' = "none"
    /\ UNCHANGED <<state, proc, uploads, subs, live, revoked, settings,
                   stickerUrl, regenerating, debounceRef, gens, committed>>

InitCalls ==
    /\ state = HomeState("idle", 0, NoUrl, NoUrl)
    /\ proc = "none"
    /\ uploads = 0
    /\ subs = {}
    /\ live = {}
    /\ revoked = {}
    /\ settings = DEFAULT_SETTINGS
    /\ stickerUrl = NoUrl
    /\ regenerating = FALSE
    /\ debounceRef = 0
    /\ gens = <<>>
    /\ committed = {}
    /\ args \in CallChoices
    /\ apc = "loading"
    /\ canvas = NoCanvas
    /\ ctx = NoContext
    /\ ops = <<>>
    /\ result = Pending
    /\ cause = "none"
    /\ runs = <<>>

NextCalls ==
    \/ onerror
    \/ \E ctxOk \in BOOLEAN : onload(ctxOk)
    \/ \E blobOk \in BOOLEAN : toBlobCallback(blobOk)
    \/ \E a \in CallChoices : callAgain(a)

SpecCalls == InitCalls /\ [][NextCalls]_vars

---------------------------------------------------------------------------
(* Properties of addStickerOutline *)

\* img.onload has sized the canvas
Sized == apc # "loading" /\ cause # "onerror"
\* img.onload has drawn and called canvas.toBlob
Drawn == Sized /\ cause # "getContext"
\* the outline stamps: every drawImage before the last two calls, which are
\* the draw of the source and canvas.toBlob
Stamps == {k \in 1..(Len(ops) - 2) : ops[k].op = "drawImage"}

\* C6: the three failures reject with three different errors: no image
\* with the load error, no 2D context with the context error and nothing
\* drawn, a null blob with the blob error and never with one of the others.
C6_DistinctErrors ==
    /\ ErrLoad # ErrContext /\ ErrLoad # ErrBlob /\ ErrContext # ErrBlob
    /\ result.state = "rejected" <=> cause # "none"
    /\ cause = "onerror" => (result.value = ErrLoad /\ ops = <<>>)
    /\ cause = "getContext" => (result.value = ErrContext /\ ops = <<>>)
    /\ cause = "toBlob" =>
          (result.value = ErrBlob /\ result.value \notin {ErrLoad, ErrContext})
    /\ result.state = "rejected" =>
          /\ result.value = ErrBlob => cause = "toBlob"
          /\ result.value = ErrContext => cause = "getContext"
          /\ result.value = ErrLoad => cause = "onerror"

\* C6 witness: encoding failed after everything was drawn.
C6_Witness ==
    /\ cause = "toBlob"
    /\ result = [state |-> "rejected", value |-> ErrBlob]
    /\ Len(ops) > 1

\* C7: with outlineWidth = 0 the padding is 4 and the only drawing call is
\* the source at offset (0,0) under the shadow of the selected style: no
\* stamp and no fill, whatever the style and the wave values are.
C7_ZeroWidthNoOutline ==
    (Drawn /\ args.settings.outlineWidth = 0) =>
        /\ canvas.pad = 4 * PadUnit
        /\ Len(ops) = 2
        /\ ops[1] = [op |-> "drawImage", at |-> canvas.origin,
                     ang |-> 0, ring |-> 0, rw |-> 0, rect |-> <<>>,
                     ctx |-> shadow(NewContext, args.settings.shadowStyle)]
        /\ ops[2].op = "toBlob"
        /\ Stamps = {}
        /\ \A k \in 1..Len(ops) : ops[k].op # "fillRect"

\* C7 witness: a zero-width call in a wave style with large wave values and
\* a shadow has drawn.
C7_Witness ==
    /\ apc = "resolved"
    /\ args.settings.outlineWidth = 0
    /\ args.settings.outlineStyle = "chaotic"
    /\ args.settings.masterAmp = 50
    /\ args.settings.shadowStyle = "hard"
    /\ Len(ops) = 2

\* The sizes as C8 computes them, in units of 1/PadUnit px
C8_wobbleExtra ==
    IF args.settings.outlineStyle = "solid" THEN 0
    ELSE args.settings.outlineWidth * args.settings.masterAmp *
           (args.settings.wave1.amp + args.settings.wave2.amp +
            args.settings.wave3.amp)
C8_pad == Max((args.settings.outlineWidth + 4) * PadUnit + C8_wobbleExtra,
              4 * PadUnit)
C8_shadowPad == IF args.settings.shadowStyle = "none" THEN 0 ELSE 30
C8_width == (args.img.width + C8_shadowPad) * PadUnit + 2 * C8_pad
C8_height == (args.img.height + C8_shadowPad) * PadUnit + 2 * C8_pad
C8_Scenario ==
    /\ args.img = [width |-> 100, height |-> 100]
    /\ args.settings.outlineWidth = 8
    /\ args.settings.outlineStyle = "solid"
    /\ args.settings.shadowStyle = "none"

\* C8 as stated: the canvas dimensions are exactly srcWidth + 2 pad +
\* shadowPad and srcHeight + 2 pad + shadowPad.
C8_ExactSize ==
    Sized => /\ canvas.width * PadUnit = C8_width
             /\ canvas.height * PadUnit = C8_height

\* C8 amended: the canvas dimensions are srcWidth + 2 pad + shadowPad and
\* srcHeight + 2 pad + shadowPad truncated to an integer, pad being
\* max(outlineWidth + wobbleExtra + 4, 4); the scenario gives 124 x 124.
C8_TruncatedSize ==
    Sized =>
        /\ canvas.pad = C8_pad
        /\ canvas.width * PadUnit <= C8_width
        /\ C8_width < (canvas.width + 1) * PadUnit
        /\ canvas.height * PadUnit <= C8_height
        /\ C8_height < (canvas.height + 1) * PadUnit
        /\ C8_Scenario => (canvas.width = 124 /\ canvas.height = 124)

\* C8 witness: a canvas was sized from a value with a fraction.
C8_Witness ==
    /\ Sized
    /\ C8_width % PadUnit # 0
    /\ args.settings.shadowStyle # "none"
    /\ canvas.width > args.img.width + 38

\* The settings that differ from s in one raised field: outlineWidth, one
\* wave amplitude or masterAmp, by d steps of its slider
Raised(s, d) ==
    {[s EXCEPT !.outlineWidth = @ + d],
     [s EXCEPT !.wave1.amp = @ + d],
     [s EXCEPT !.wave2.amp = @ + d],
     [s EXCEPT !.wave3.amp = @ + d],
     [s EXCEPT !.masterAmp = @ + d]}

\* C9: raising outlineWidth, one wave amplitude or masterAmp alone never
\* lowers pad, in every style.
C9_PadMonotonic ==
    Sized => \A d \in 1..MaxRaise :
               \A s2 \in Raised(args.settings, d) : canvas.pad <= pad(s2)

\* C9 witness: a wave-style call whose pad grows when an amplitude is
\* raised and stays when another field is raised.
C9_Witness ==
    /\ Sized
    /\ args.settings.outlineStyle # "solid"
    /\ \E s2 \in Raised(args.settings, 1) : pad(s2) > canvas.pad
    /\ \E s2 \in Raised(args.settings, 1) : pad(s2) = canvas.pad

\* C10: in the wave styles every ring is stamped at all 72 angles, and
\* every stamp's radius is at least 0.05 times its ring's radius, so above 0.
C10_RadiusFloor ==
    (Drawn /\ args.settings.outlineStyle # "solid") =>
        LET w == args.settings.outlineWidth
            stamps == Stamps
        IN  /\ \A k \in stamps :
                  /\ ops[k].rw >= ops[k].ring * w * (WobbleUnit \div 20)
                  /\ ops[k].rw > 0
            /\ \A rad \in {r \in 1..w : (w - r) % 2 = 0} :
                  {ops[k].ang : k \in {j \in stamps : ops[j].ring = rad}}
                     = 0..71

\* C10 witness: a wave-style call in which the floor decided one stamp's
\* radius and the wobble another's.
C10_Witness ==
    /\ Drawn
    /\ args.settings.outlineStyle = "wobbly"
    /\ \E k \in 1..(Len(ops) - 2) :
          ops[k].rw = ops[k].ring * args.settings.outlineWidth
                        * (WobbleUnit \div 20)
    /\ \E k \in 1..(Len(ops) - 2) :
          ops[k].rw > ops[k].ring * args.settings.outlineWidth * WobbleUnit

---------------------------------------------------------------------------
(* Properties of the regeneration effect *)

Gens == 1..Len(gens)
InFlight(g) == gens[g].phase \in {"loading", "encoding"}
\* the step in which generation g's addStickerOutline settles
Resolves(g) == gens[g].phase = "encoding" /\ gens'[g].phase = "resolved"
Rejects(g) == gens[g].phase # "rejected" /\ gens'[g].phase = "rejected"
\* the step that supersedes generation g (a settings change or the unmount)
Supersedes(g) == ~gens[g].cancelled /\ gens'[g].cancelled

\* C1: once the settings changed while generation A was in flight, A stays
\* cancelled and its URL is never put into stickerUrl; every URL that is
\* committed comes from the generation of the latest settings value, which
\* is not cancelled.
C1_SupersededNeverCommitted ==
    [][\A g \in Gens :
         /\ gens[g].cancelled => gens'[g].cancelled
         /\ (gens[g].cancelled /\ InFlight(g)) => stickerUrl' # OutputUrl(g)
         /\ (stickerUrl' = OutputUrl(g) /\ stickerUrl # OutputUrl(g)) =>
               /\ ~gens[g].cancelled
               /\ g = Len(gens)
               /\ gens[g].settings = settings
               /\ Mounted]_vars

\* C1 witness: generation a was superseded in flight, completed without
\* being committed, and the later generation b of the same ResultView is
\* the one displayed.
C1_Witness ==
    \E a, b \in Gens :
        /\ a < b
        /\ gens[a].run = gens[b].run
        /\ gens[a].cancelled
        /\ gens[a].phase = "resolved"
        /\ OutputUrl(a) \notin committed
        /\ stickerUrl = OutputUrl(b)

\* the URLs committed by ResultView instance n that are not revoked
LiveCommitted(n) ==
    {u \in committed \cap live : gens[u[2]].run = n}

C3_SupersededCompletesDiscarded ==
    /\ [](\A g \in Gens :
            /\ (gens[g].cancelled /\ gens[g].phase = "loading")
                  => ENABLED ImgLoad(g, TRUE)
            /\ (gens[g].cancelled /\ gens[g].phase = "encoding")
                  => ENABLED BlobReady(g))
    /\ [][\A g \in Gens :
            /\ Supersedes(g) =>
                  /\ regenerating' = regenerating
                  /\ gens'[g].err = gens[g].err
                  /\ InFlight(g) => gens'[g].phase = gens[g].phase
            /\ (gens[g].cancelled /\ Resolves(g)) =>
                  /\ OutputUrl(g) \in revoked'
                  /\ OutputUrl(g) \notin live'
                  /\ stickerUrl' = stickerUrl
                  /\ committed' = committed
                  /\ regenerating' = regenerating]_vars

\* C3 witness: a generation superseded in flight has resolved, its URL is
\* revoked and was never committed, and the flag it raised is still up.
C3_Witness ==
    \E g \in Gens :
        /\ gens[g].cancelled
        /\ gens[g].phase = "resolved"
        /\ OutputUrl(g) \in revoked
        /\ OutputUrl(g) \notin committed
        /\ regenerating

\* C4: a generation still waiting for its timer when the settings change
\* (or the view unmounts) is cleared and never calls addStickerOutline; a
\* timer fires only for the latest, uncancelled generation, whose settings
\* value is still the current one.
C4_DebounceCancelsPending ==
    /\ [](\A g \in Gens : gens[g].cancelled => gens[g].phase # "pending")
    /\ [][\A g \in Gens :
            /\ (gens[g].phase = "pending" /\ Supersedes(g))
                  => gens'[g].phase = "cleared"
            /\ gens[g].phase = "cleared" => gens'[g] = gens[g]
            /\ (gens[g].phase = "pending" /\ gens'[g].phase = "loading") =>
                  /\ ~gens[g].cancelled
                  /\ g = Len(gens)
                  /\ gens[g].settings = settings
                  /\ Mounted]_vars

\* C4 witness: a generation was cleared in its debounce window and the
\* generation that superseded it in the same view has started.
C4_Witness ==
    \E a, b \in Gens :
        /\ a < b
        /\ gens[a].run = gens[b].run
        /\ gens[a].phase = "cleared"
        /\ gens[b].phase = "loading"

\* C5: a generation that fails has created no URL; the step in which it
\* fails arms no timer, starts no generation and leaves stickerUrl and every
\* URL as they were; a failed generation never runs again, and a generation
\* is armed only by a step that sets the settings of a mounted view or
\* mounts it; the URL displayed by a mounted view is live.
C5_FailureKeepsPrevious ==
    /\ [](/\ \A g \in Gens : gens[g].phase = "rejected" =>
                /\ gens[g].url = NoUrl
                /\ OutputUrl(g) \notin live \cup revoked
          /\ (Mounted /\ stickerUrl # NoUrl) => stickerUrl \in live)
    /\ [][\A g \in Gens :
            /\ Rejects(g) =>
                  /\ stickerUrl' = stickerUrl
                  /\ live' = live /\ revoked' = revoked
                  /\ committed' = committed
                  /\ debounceRef' = debounceRef
                  /\ Len(gens') = Len(gens)
                  /\ \A h \in Gens \ {g} : gens'[h] = gens[h]
            /\ gens[g].phase = "rejected" =>
                  /\ gens'[g].phase = "rejected"
                  /\ gens'[g].err = gens[g].err
            /\ Len(gens') > Len(gens) =>
                  /\ Len(gens') = Len(gens) + 1
                  /\ debounceRef' = Len(gens')
                  /\ gens'[Len(gens')].settings = settings'
                  /\ gens'[Len(gens')].phase = "pending"
                  /\ state'.status = "done"]_vars

\* C5 witness: the latest generation of a mounted view failed after an
\* earlier one had been committed, whose URL is still displayed and live.
C5_Witness ==
    /\ Mounted
    /\ stickerUrl \in live
    /\ ~regenerating
    /\ gens[Len(gens)].phase = "rejected"
    /\ ~gens[Len(gens)].cancelled
    /\ \A g \in Gens : gens[g].phase \in {"resolved", "rejected"}

---------------------------------------------------------------------------
(* Properties of addStickerOutline: shadow, order, layout *)

\* The source draw: the drawImage right before canvas.toBlob
SourceDraw == ops[Len(ops) - 1]
\* The shadow attributes of a context state
ShadowOf(c) ==
    [shadowColor |-> c.shadowColor, shadowBlur |-> c.shadowBlur,
     shadowOffsetX |-> c.shadowOffsetX, shadowOffsetY |-> c.shadowOffsetY]
\* The attributes of a context that has no shadow set
NoShadow == ShadowOf(NewContext)
\* The margins around the source drawn at offset (0,0), doubled, in px
MarginLeft2 == SourceDraw.at[1]
MarginRight2 == 2 * canvas.width - SourceDraw.at[1] - 2 * args.img.width
MarginTop2 == SourceDraw.at[2]
MarginBottom2 == 2 * canvas.height - SourceDraw.at[2] - 2 * args.img.height
C11_FloatShadow ==
    [shadowColor |-> "rgba(0,0,0,0.18)", shadowBlur |-> 28,
     shadowOffsetX |-> 0, shadowOffsetY |-> 12]

\* C11 as stated: with shadowStyle Float every margin around the source is
\* 30 px more than the outline padding, and the source is drawn with the
\* Float shadow parameters.
C11_FloatMarginEachSide ==
    (Drawn /\ args.settings.shadowStyle = "float") =>
        /\ MarginLeft2 * (PadUnit \div 2) = canvas.pad + 30 * PadUnit
        /\ MarginRight2 * (PadUnit \div 2) = canvas.pad + 30 * PadUnit
        /\ MarginTop2 * (PadUnit \div 2) = canvas.pad + 30 * PadUnit
        /\ MarginBottom2 * (PadUnit \div 2) = canvas.pad + 30 * PadUnit
        /\ ShadowOf(SourceDraw.ctx) = C11_FloatShadow

\* C11 amended: with shadowStyle Float the canvas dimensions are the source's
\* plus twice the outline padding plus 30, truncated to an integer, and the
\* source is centered, so the 30 px are shared by the two sides of each
\* axis: every margin is the outline padding plus 15 px, less at most half a
\* pixel of truncation; the source is drawn with blur 28, offset (0,12),
\* black at alpha 0.18.
C11_FloatMargin ==
    (Drawn /\ args.settings.shadowStyle = "float") =>
        /\ canvas.width =
              (args.img.width * PadUnit + 2 * canvas.pad) \div PadUnit + 30
        /\ canvas.height =
              (args.img.height * PadUnit + 2 * canvas.pad) \div PadUnit + 30
        /\ MarginLeft2 = MarginRight2
        /\ MarginTop2 = MarginBottom2
        /\ \A m2 \in {MarginLeft2, MarginRight2, MarginTop2, MarginBottom2} :
              /\ m2 * (PadUnit \div 2) <= canvas.pad + 15 * PadUnit
              /\ m2 * (PadUnit \div 2) > canvas.pad + 15 * PadUnit - PadUnit \div 2
        /\ ShadowOf(SourceDraw.ctx) = C11_FloatShadow

\* C11 witness: a Float call with an outline has drawn, its margins 15 px
\* more than the outline padding.
C11_Witness ==
    /\ Drawn
    /\ args.settings.shadowStyle = "float"
    /\ args.settings.outlineWidth = 8
    /\ args.settings.outlineStyle = "solid"
    /\ MarginLeft2 = 2 * (12 + 15)
    /\ MarginBottom2 = 2 * (12 + 15)
    /\ SourceDraw.ctx.shadowBlur = 28

\* The shadow parameters C12 gives for each shadow style
C12_ShadowTable ==
    [soft  |-> [shadowColor |-> "rgba(0,0,0,0.2)", shadowBlur |-> 16,
                shadowOffsetX |-> 0, shadowOffsetY |-> 4],
     hard  |-> [shadowColor |-> "rgba(0,0,0,0.35)", shadowBlur |-> 2,
                shadowOffsetX |-> 3, shadowOffsetY |-> 5],
     float |-> [shadowColor |-> "rgba(0,0,0,0.18)", shadowBlur |-> 28,
                shadowOffsetX |-> 0, shadowOffsetY |-> 12],
     none  |-> NoShadow]

\* C12: the shadow parameters the source is drawn with are those of the
\* table for the shadow style, whatever the width, the outline style, the
\* color and the wave values are; with None they are the untouched defaults
\* of the context.
C12_ShadowByStyleAlone ==
    Drawn => ShadowOf(SourceDraw.ctx) = C12_ShadowTable[args.settings.shadowStyle]

\* C12 witness: a Hard shadow on a call whose outline branch has changed the
\* context before the shadow branch ran.
C12_Witness ==
    /\ Drawn
    /\ args.settings.shadowStyle = "hard"
    /\ args.settings.outlineStyle = "chaotic"
    /\ args.settings.outlineWidth = 5
    /\ SourceDraw.ctx.fillStyle = args.settings.outlineColor
    /\ SourceDraw.ctx.shadowOffsetX = 3

\* C13: the calls of one generation are in this order: the outline stamps,
\* then the one color fill (both only when outlineWidth > 0, and all with no
\* shadow parameter set), then the source drawn once at offset (0,0) with
\* the shadow parameters of the style, then canvas.toBlob with the shadow
\* color back to transparent.
C13_DrawOrder ==
    Drawn =>
        LET n == Len(ops)
            w == args.settings.outlineWidth
        IN  /\ n >= 2
            /\ ops[n].op = "toBlob"
            /\ ops[n].ctx.shadowColor = "transparent"
            /\ SourceDraw.op = "drawImage"
            /\ SourceDraw.rw = 0
            /\ SourceDraw.ctx.globalCompositeOperation = "source-over"
            /\ ShadowOf(SourceDraw.ctx) = C12_ShadowTable[args.settings.shadowStyle]
            /\ \A k \in 1..(n - 2) :
                  /\ ShadowOf(ops[k].ctx) = NoShadow
                  /\ ops[k].op = IF k = n - 2 THEN "fillRect" ELSE "drawImage"
                  /\ ops[k].op = "drawImage" =>
                        (ops[k].rw > 0 /\
                         ops[k].ctx.globalCompositeOperation = "source-over")
                  /\ ops[k].op = "fillRect" =>
                        /\ ops[k].ctx.globalCompositeOperation = "source-in"
                        /\ ops[k].ctx.fillStyle = args.settings.outlineColor
            /\ (w > 0) <=> (n > 2)
            /\ w > 0 => n - 2 > steps

\* C13 witness: a call with an outline and a shadow has stamped, filled,
\* drawn the source and called canvas.toBlob.
C13_Witness ==
    /\ Drawn
    /\ args.settings.outlineWidth = 3
    /\ args.settings.shadowStyle = "soft"
    /\ Len(ops) > steps + 2
    /\ ops[Len(ops) - 2].op = "fillRect"
    /\ SourceDraw.ctx.shadowBlur = 16
    /\ ops[1].ctx.shadowBlur = 0

\* The calls that have drawn: those that are over, then the current one
DrawnRuns ==
    {r \in {runs[k] : k \in 1..Len(runs)} : r.ops # <<>>}
      \cup (IF Drawn THEN {[args |-> args, canvas |-> canvas, ctx |-> ctx,
                            ops |-> ops, result |-> result]}
            ELSE {})

WavesOf(s) ==
    [wave1 |-> s.wave1, wave2 |-> s.wave2, wave3 |-> s.wave3,
     masterAmp |-> s.masterAmp]
\* The settings s with the wave terms and masterAmp of wv
WithWaves(s, wv) ==
    [s EXCEPT !.wave1 = wv.wave1, !.wave2 = wv.wave2, !.wave3 = wv.wave3,
              !.masterAmp = wv.masterAmp]

\* C17: a Solid call has the canvas and the drawing calls (stamp offsets
\* included) of the Solid call with any other wave1, wave2, wave3 and
\* masterAmp and otherwise the same arguments.
C17_SolidIgnoresWaves ==
    (Drawn /\ args.settings.outlineStyle = "solid") =>
        \A wv \in WaveChoices :
            LET s2 == WithWaves(args.settings, wv)
            IN  /\ newCanvas(args.img, s2) = canvas
                /\ Append(drawing(args.img, s2), toBlob(finalContext(s2))) = ops

\* C17 witness: a Solid call with an outline and large wave values has
\* drawn on a canvas padded by the width and 4 px only.
C17_Witness ==
    /\ Drawn
    /\ args.settings.outlineStyle = "solid"
    /\ args.settings.outlineWidth = 6
    /\ args.settings.masterAmp = 50
    /\ args.settings.wave1.amp = 40
    /\ canvas.pad = 10 * PadUnit
    /\ Len(ops) > steps

\* The scenario of C18: a 100 x 100 source, outlineWidth 8, Wobbly at its
\* preset values, shadow None
C18_Scenario ==
    /\ args.img = [width |-> 100, height |-> 100]
    /\ args.settings.outlineWidth = 8
    /\ args.settings.outlineStyle = "wobbly"
    /\ WavesOf(args.settings) = WAVE_DEFAULTS.wobbly
    /\ args.settings.shadowStyle = "none"
\* wobbleExtra 36.8 and pad 48.8, in units of 1/PadUnit px: pad is
\* outlineWidth + wobbleExtra + 4
C18_Pad ==
    /\ canvas.pad - (8 + 4) * PadUnit = 368 * (PadUnit \div 10)
    /\ canvas.pad = 488 * (PadUnit \div 10)

\* C18 as stated: in the scenario wobbleExtra is 36.8, pad is 48.8 and the
\* canvas is 198 x 198.
C18_Wobbly198 ==
    (Sized /\ C18_Scenario) =>
        (C18_Pad /\ canvas.width = 198 /\ canvas.height = 198)

\* C18 amended: in the scenario wobbleExtra is 36.8, pad is 48.8 and the
\* canvas is 197 x 197, which is 197.6 truncated.
C18_Wobbly197 ==
    (Sized /\ C18_Scenario) =>
        /\ C18_Pad
        /\ canvasSize(100, args.settings) = 1976 * (PadUnit \div 10)
        /\ canvas.width = 197
        /\ canvas.height = 197

\* C18 witness: the canvas of the scenario was sized.
C18_Witness ==
    /\ Sized
    /\ C18_Scenario
    /\ canvas.width = 197
    /\ canvas.pad = 9760

---------------------------------------------------------------------------
(* The pixels of the canvas *)

\* Canvas coordinates are held in units of 1/PxUnit px
PxUnit == SinScale * SinScale

\* The texels of the cutout that are not transparent: here all but the
\* top left one
Subject(img) ==
    {t \in (0..(img.width - 1)) \X (0..(img.height - 1)) : t # <<0, 0>>}

\* A pixel of a new canvas is transparent black; by is the set of drawing
\* calls that gave the pixel its alpha (no call: alpha 0)
Transparent == [rgb |-> "none", by |-> {}]

\* The radius of a drawImage in units of 1/SinScale px
StampRadius(op, s) ==
    IF op.rw = 0 THEN 0 ELSE op.rw \div (s.outlineWidth * AmpScale * MasterScale)
\* The position cx - img.width / 2 + Math.cos(a) * r of a drawImage
StampX(op, s) ==
    op.at[1] * (PxUnit \div 2)
      + Cos(op.ang * (TurnSteps \div steps)) * StampRadius(op, s)
\* The position cy - img.height / 2 + Math.sin(a) * r of a drawImage
StampY(op, s) ==
    op.at[2] * (PxUnit \div 2)
      + Sin(op.ang * (TurnSteps \div steps)) * StampRadius(op, s)

\* ctx.drawImage(img, x, y) touches pixel px: a texel of the subject,
\* placed at x, y, overlaps the pixel
Covers(op, a, px) ==
    LET x == StampX(op, a.settings)
        y == StampY(op, a.settings)
    IN  \E t \in Subject(a.img) :
            /\ x + t[1] * PxUnit < (px[1] + 1) * PxUnit
            /\ x + (t[1] + 1) * PxUnit > px[1] * PxUnit
            /\ y + t[2] * PxUnit < (px[2] + 1) * PxUnit
            /\ y + (t[2] + 1) * PxUnit > px[2] * PxUnit

\* The pixel px after drawing call k, op, on a pixel of value v, by the
\* compositing rule of op.ctx.globalCompositeOperation: source-over puts
\* the source on the pixel, source-in keeps the source where the pixel has
\* alpha and clears the pixel elsewhere (the fill color is opaque)
Paint(k, op, a, px, v) ==
    CASE op.op = "drawImage" ->
           IF Covers(op, a, px)
           THEN (IF op.ctx.globalCompositeOperation = "source-in"
                 THEN (IF v.by # {} THEN [rgb |-> "cutout", by |-> v.by]
                       ELSE Transparent)
                 ELSE [rgb |-> "cutout", by |-> v.by \cup {k}])
           ELSE (IF op.ctx.globalCompositeOperation = "source-in"
                 THEN Transparent ELSE v)
      [] op.op = "fillRect" ->
           IF /\ op.rect[1] <= px[1] /\ px[1] < op.rect[1] + op.rect[3]
              /\ op.rect[2] <= px[2] /\ px[2] < op.rect[2] + op.rect[4]
           THEN (IF op.ctx.globalCompositeOperation = "source-in"
                 THEN (IF v.by # {} THEN [rgb |-> op.ctx.fillStyle, by |-> v.by]
                       ELSE Transparent)
                 ELSE [rgb |-> op.ctx.fillStyle, by |-> v.by \cup {k}])
           ELSE v
      [] OTHER -> v

\* The pixel px of value v after the drawing calls lo..hi of os, in order
RECURSIVE PaintAll(_, _, _, _, _, _)
PaintAll(os, lo, hi, a, px, v) ==
    IF lo > hi THEN v
    ELSE IF lo = hi THEN Paint(lo, os[lo], a, px, v)
    ELSE LET mid == (lo + hi) \div 2
             half == PaintAll(os, lo, mid, a, px, v)
         IN  IF half = Transparent
             THEN PaintAll(os, mid + 1, hi, a, px, Transparent)
             ELSE PaintAll(os, mid + 1, hi, a, px, half)

\* The pixel px of the canvas after the first k drawing calls of os
PixelAfter(os, k, a, px) == PaintAll(os, 1, k, a, px, Transparent)

\* The pixels of the canvas
Pixels(cv) == (0..(cv.width - 1)) \X (0..(cv.height - 1))

\* The cutouts and settings whose pixels are followed
FillChoices ==
    {[img |-> [width |-> i[1], height |-> i[2]],
      settings |-> [outlineWidth |-> w, outlineColor |-> "#3b82f6",
                    outlineStyle |-> st,
                    wave1 |-> WAVE_DEFAULTS[wv].wave1,
                    wave2 |-> WAVE_DEFAULTS[wv].wave2,
                    wave3 |-> WAVE_DEFAULTS[wv].wave3,
                    masterAmp |-> WAVE_DEFAULTS[wv].masterAmp,
                    shadowStyle |-> "none"]] :
        i \in {<<2, 2>>, <<1, 2>>}, w \in 0..2, st \in {"solid", "wavy"},
        wv \in {"wobbly", "wavy"}}

InitFill ==
    /\ state = HomeState("idle", 0, NoUrl, NoUrl)
    /\ proc = "none"
    /\ uploads = 0
    /\ subs = {}
    /\ live = {}
    /\ revoked = {}
    /\ settings = DEFAULT_SETTINGS
    /\ stickerUrl = NoUrl
    /\ regenerating = FALSE
    /\ debounceRef = 0
    /\ gens = <<>>
    /\ committed = {}
    /\ args \in FillChoices
    /\ apc = "loading"
    /\ canvas = NoCanvas
    /\ ctx = NoContext
    /\ ops = <<>>
    /\ result = Pending
    /\ cause = "none"
    /\ runs = <<>>

SpecFill == InitFill /\ [][NextOutline]_vars

\* The pixels that at least one outline stamp touches
C15_Covered ==
    {px \in Pixels(canvas) : \E k \in Stamps : Covers(ops[k], args, px)}

\* C15: after the color fill every pixel that at least one stamp touched
\* has the outline color and the alpha the stamps gave it, and every other
\* pixel is as it was before the fill: transparent.
C15_FillKeepsCoverage ==
    (Drawn /\ args.settings.outlineWidth > 0) =>
        LET f == Len(ops) - 2
            covered == C15_Covered
        IN  /\ ops[f].op = "fillRect"
            /\ \A px \in Pixels(canvas) :
                  LET before == PixelAfter(ops, f - 1, args, px)
                      after == Paint(f, ops[f], args, px, before)
                  IN  /\ px \in covered =>
                            /\ after.rgb = args.settings.outlineColor
                            /\ after.by = before.by
                            /\ after.by # {}
                      /\ px \notin covered =>
                            /\ after = Transparent
                            /\ after = before

\* C15 witness: a fill on a canvas with pixels the stamps touched and
\* pixels they did not.
C15_Witness ==
    /\ Drawn
    /\ args.settings.outlineWidth = 2
    /\ args.settings.outlineStyle = "wavy"
    /\ ops[Len(ops) - 2].op = "fillRect"
    /\ C15_Covered # {}
    /\ C15_Covered # Pixels(canvas)
    /\ \E px \in C15_Covered :
          PixelAfter(ops, Len(ops) - 2, args, px).rgb = "#3b82f6"
    /\ PixelAfter(ops, Len(ops) - 2, args, <<0, 0>>) = Transparent

---------------------------------------------------------------------------
(* Properties of the settings controls *)

\* The preset rows as C16 gives them, in the units of the sliders
C16_Presets ==
    [wobbly  |-> [wave1 |-> [freq |-> 2 * FreqScale, amp |-> 24],
                  wave2 |-> [freq |-> 7, amp |-> 16],
                  wave3 |-> [freq |-> 7 * FreqScale, amp |-> 6],
                  masterAmp |-> 2 * MasterScale],
     chaotic |-> [wave1 |-> [freq |-> 4 * FreqScale, amp |-> 30],
                  wave2 |-> [freq |-> 9 * FreqScale, amp |-> 24],
                  wave3 |-> [freq |-> 17 * FreqScale, amp |-> 16],
                  masterAmp |-> 3 * MasterScale],
     wavy    |-> [wave1 |-> [freq |-> 3, amp |-> 36],
                  wave2 |-> [freq |-> 5, amp |-> 12],
                  wave3 |-> [freq |-> 5 * FreqScale, amp |-> 4],
                  masterAmp |-> 15]]

\* The fields a style selection leaves alone
FrameOf(s) == <<s.outlineWidth, s.outlineColor, s.shadowStyle>>
\* The fields other than the style, and the number of them that differ
EditFields ==
    {"outlineWidth", "outlineColor", "shadowStyle", "masterAmp",
     "wave1", "wave2", "wave3"}
Changed(s, t) == {f \in EditFields : s[f] # t[f]}

\* C16: a click on the pill of a wave style sets the style and the four
\* wave fields to that style's preset row, whatever they were, and leaves
\* outlineWidth, outlineColor and shadowStyle as they are; every step that
\* changes the style is such a click; a fine-tune edit keeps the style and
\* changes nothing but the one term edited.
C16_StyleLoadsPreset ==
    [][/\ \A v \in OUTLINE_STYLES : SelectOutlineStyle(v) =>
              /\ settings'.outlineStyle = v
              /\ v # "solid" => WavesOf(settings') = C16_Presets[v]
              /\ FrameOf(settings') = FrameOf(settings)
       /\ settings'.outlineStyle # settings.outlineStyle =>
              /\ FrameOf(settings') = FrameOf(settings)
              /\ settings'.outlineStyle # "solid" =>
                     WavesOf(settings') = C16_Presets[settings'.outlineStyle]
       /\ \A v \in EditMasterAmps : SetMasterAmp(v) =>
              /\ settings'.outlineStyle = settings.outlineStyle
              /\ settings'.masterAmp = v
              /\ Changed(settings, settings') \subseteq {"masterAmp"}
       /\ \A key \in WaveKeys, v \in EditFreqs : SetWaveFreq(key, v) =>
              /\ settings'.outlineStyle = settings.outlineStyle
              /\ settings'[key] = [freq |-> v, amp |-> settings[key].amp]
              /\ Changed(settings, settings') \subseteq {key}
       /\ \A key \in WaveKeys, v \in EditAmps : SetWaveAmp(key, v) =>
              /\ settings'.outlineStyle = settings.outlineStyle
              /\ settings'[key] = [freq |-> settings[key].freq, amp |-> v]
              /\ Changed(settings, settings') \subseteq {key}
      ]_vars

\* C16 witness: a wave style was selected, a term was fine-tuned under it,
\* and the style selected after that has its preset row.
C16_Witness ==
    /\ Len(gens) = 4
    /\ gens[2].settings.outlineStyle = "wobbly"
    /\ gens[3].settings.outlineStyle = "wobbly"
    /\ gens[3].settings.masterAmp = 35
    /\ WavesOf(gens[3].settings) # C16_Presets.wobbly
    /\ settings = gens[4].settings
    /\ settings.outlineStyle = "wobbly"
    /\ WavesOf(settings) = C16_Presets.wobbly

---------------------------------------------------------------------------
(* Properties of addStickerOutline: layout and rings *)

\* C19: the source drawn at offset (0,0) has equal margins left and right
\* and equal margins top and bottom, for every settings value; every stamp
\* is drawn at that position plus its own offset (cos(a) r, sin(a) r).
C19_Centered ==
    Drawn =>
        /\ SourceDraw.rw = 0
        /\ MarginLeft2 = MarginRight2
        /\ MarginTop2 = MarginBottom2
        /\ MarginLeft2 >= 0 /\ MarginTop2 >= 0
        /\ \A k \in Stamps :
              LET r == StampRadius(ops[k], args.settings)
                  i == ops[k].ang * (TurnSteps \div steps)
              IN  /\ ops[k].at = SourceDraw.at
                  /\ StampX(ops[k], args.settings)
                        - StampX(SourceDraw, args.settings) = Cos(i) * r
                  /\ StampY(ops[k], args.settings)
                        - StampY(SourceDraw, args.settings) = Sin(i) * r

\* C19 witness: a source centered at a half pixel (margins of 63.5 px), under
\* a shadow and with stamps around it.
C19_Witness ==
    /\ Drawn
    /\ args.img = [width |-> 100, height |-> 100]
    /\ args.settings.shadowStyle = "float"
    /\ canvas.width = 227
    /\ MarginLeft2 = 127
    /\ MarginBottom2 = 127
    /\ Stamps # {}

\* The ring of the stamp k counted in rounds of 72
C20_Round(k) == ((k - 1) \div steps) + 1
\* What C20 says of every solid stamp but its ring: the angles of a round
\* are the 72 of 2 PI i / 72 in order, and the offset is
\* (cos(angle) r, sin(angle) r) for the ring's r
C20_EveryRingComplete ==
    /\ Len(ops) - 3 = steps * C20_Round(Len(ops) - 3)
    /\ \A k \in 1..(Len(ops) - 3) :
          /\ ops[k].op = "drawImage"
          /\ ops[k].ang = (k - 1) % steps
          /\ ops[k].rw = ops[k].ring * args.settings.outlineWidth * WobbleUnit
    /\ \A k \in 1..steps : ops[k].ring = args.settings.outlineWidth

\* C20 as stated: the Solid rings are outlineWidth, outlineWidth - 2,
\* outlineWidth - 4, ... above 0, each complete, the outermost first.
C20_RingsStepFromWidth ==
    (Drawn /\ args.settings.outlineStyle = "solid"
           /\ args.settings.outlineWidth > 0) =>
        LET w == args.settings.outlineWidth
        IN  /\ C20_EveryRingComplete
            /\ Len(ops) - 3 = steps * ((w + 1) \div 2)
            /\ \A k \in 1..(Len(ops) - 3) :
                  ops[k].ring = w - 2 * (C20_Round(k) - 1)

\* C20 amended: the Solid rings are outlineWidth, then outlineWidth - 1,
\* outlineWidth - 3, ... down to the last value above 0; each ring is
\* stamped at all 72 angles in order at offset (cos(angle) r, sin(angle) r),
\* the outermost ring completely before any inner ring.
C20_RingsStepFromWidthLessOne ==
    (Drawn /\ args.settings.outlineStyle = "solid"
           /\ args.settings.outlineWidth > 0) =>
        LET w == args.settings.outlineWidth
        IN  /\ C20_EveryRingComplete
            /\ Len(ops) - 3 = steps * (1 + w \div 2)
            /\ \A k \in 1..(Len(ops) - 3) :
                  /\ ops[k].ring > 0
                  /\ ops[k].ring = IF C20_Round(k) = 1 THEN w
                                   ELSE w - 1 - 2 * (C20_Round(k) - 2)

\* C20 witness: a Solid call of width 8 has stamped the rings 8, 7, 5, 3, 1.
C20_Witness ==
    /\ Drawn
    /\ args.settings.outlineStyle = "solid"
    /\ args.settings.outlineWidth = 8
    /\ Len(ops) = 5 * steps + 3
    /\ ops[steps].ring = 8
    /\ ops[steps + 1].ring = 7
    /\ ops[5 * steps].ring = 1

\* The values of baseRing for width w: w, w - 2, ... above 0
C21_BaseRings(w) == {r \in 1..w : (w - r) % 2 = 0}

\* C21: in the wave styles with outlineWidth > 0 every stamp has the radius
\* baseRing max(0.05, 1 + wobble(angle) s) with s = baseRing / outlineWidth
\* for a baseRing among outlineWidth, outlineWidth - 2, ... above 0, each of
\* which is used; so 0 < s <= 1, and s = 1 on the outermost ring only.
\* (Radii are held times outlineWidth, in units of 1/WobbleUnit.)
C21_WaveRadius ==
    (Drawn /\ args.settings.outlineStyle # "solid"
           /\ args.settings.outlineWidth > 0) =>
        LET w == args.settings.outlineWidth
            stamps == Stamps
        IN  /\ {ops[k].ring : k \in stamps} = C21_BaseRings(w)
            /\ \A k \in stamps :
                  LET baseRing == ops[k].ring
                      floor == (WobbleUnit \div 20) * w
                      scaled == WobbleUnit * w
                                  + wobble(args.settings, ops[k].ang) * baseRing
                  IN  /\ 0 < baseRing /\ baseRing <= w
                      /\ ops[k].rw = baseRing * (IF scaled > floor
                                                 THEN scaled ELSE floor)
                      /\ (baseRing = w) <=> (k <= 2 * steps)

\* C21 witness: a Wobbly call of width 8 with a stamp on the ring 4 whose
\* wobble, halved by the ring scale, moved its radius off 4.
C21_Witness ==
    /\ Drawn
    /\ args.settings.outlineStyle = "wobbly"
    /\ args.settings.outlineWidth = 8
    /\ WavesOf(args.settings) = WAVE_DEFAULTS.wobbly
    /\ \E k \in Stamps :
          /\ ops[k].ring = 4
          /\ ops[k].rw = 4 * (WobbleUnit * 8
                                + wobble(args.settings, ops[k].ang) * 4)
          /\ ops[k].rw # 4 * 8 * WobbleUnit

\* C23: for every shadow preset (Soft, Hard, Float) the blur radius plus the
\* larger offset magnitude of the shadow the source is drawn with is at most
\* the shadow margin, 30.
C23_ShadowFitsMargin ==
    (Drawn /\ args.settings.shadowStyle # "none") =>
        LET c == SourceDraw.ctx
            ax == IF c.shadowOffsetX < 0 THEN 0 - c.shadowOffsetX
                  ELSE c.shadowOffsetX
            ay == IF c.shadowOffsetY < 0 THEN 0 - c.shadowOffsetY
                  ELSE c.shadowOffsetY
        IN  c.shadowBlur + Max(ax, ay) <= 30

\* C24: in every style the radius of every stamp is at most outlineWidth +
\* wobbleExtra, which is pad - 4, and the stamped copy of the source lies
\* inside the canvas.  (rw is the radius times outlineWidth in units of
\* 1/WobbleUnit, pad is in units of 1/PadUnit.)
C24_StampsInsidePad ==
    Drawn =>
        LET w == args.settings.outlineWidth
            stamps == Stamps
        IN  \A k \in stamps :
              /\ ops[k].rw <= (canvas.pad - 4 * PadUnit) * w * SinScale
              /\ StampX(ops[k], args.settings) >= 0
              /\ StampY(ops[k], args.settings) >= 0
              /\ StampX(ops[k], args.settings) + args.img.width * PxUnit
                    <= canvas.width * PxUnit
              /\ StampY(ops[k], args.settings) + args.img.height * PxUnit
                    <= canvas.height * PxUnit

\* C24 witness: a wave call with a stamp that the wobble pushed beyond
\* outlineWidth, and a stamp of the largest radius the padding allows.
C24_Witness ==
    /\ Drawn
    /\ args.settings.outlineStyle # "solid"
    /\ args.settings.outlineWidth = 8
    /\ \E k \in Stamps : ops[k].rw > 8 * 8 * WobbleUnit
    /\ canvas.pad > 12 * PadUnit

---------------------------------------------------------------------------
(* Properties of the application: settings, generations, URLs, uploads *)

\* C22: a generation is armed with the settings value of that moment and
\* keeps it in every later step, whatever is edited while it is pending or
\* in flight, and it starts with it; a settings value that changes arms a
\* new generation; an edit of the width or of the shadow changes that field
\* only, a click on a style pill the style and the wave fields only.
C22_GenerationKeepsSettings ==
    [][/\ \A g \in 1..Len(gens) :
              /\ g <= Len(gens')
              /\ gens'[g].settings = gens[g].settings
              /\ gens'[g].run = gens[g].run
       /\ Len(gens') > Len(gens) =>
              gens'[Len(gens')].settings = settings'
       /\ settings' # settings => Len(gens') = Len(gens) + 1
       /\ \A g \in 1..Len(gens) : TimerFire(g) => gens[g].settings = settings
       /\ \A v \in WidthChoices : SetOutlineWidth(v) =>
              settings' = [settings EXCEPT !.outlineWidth = v]
       /\ \A v \in ShadowChoices : SetShadowStyle(v) =>
              settings' = [settings EXCEPT !.shadowStyle = v]
       /\ \A v \in StyleChoices : SelectOutlineStyle(v) =>
              /\ settings'.outlineStyle = v
              /\ Changed(settings, settings')
                    \subseteq {"masterAmp", "wave1", "wave2", "wave3"}
      ]_vars

\* C22 witness: a generation is in flight with the settings it was armed
\* with while the view shows settings edited after that.
C22_Witness ==
    /\ Mounted
    /\ Len(gens) = 2
    /\ gens[1].phase \in {"loading", "encoding"}
    /\ gens[1].run = gens[2].run
    /\ gens[1].settings = DEFAULT_SETTINGS
    /\ gens[2].settings = settings
    /\ settings # DEFAULT_SETTINGS

\* Generation g waits in its debounce window or is in flight
Active(g) == gens[g].phase \in {"pending", "loading", "encoding"}

\* C25: a generation that is pending or in flight and not cancelled is the
\* latest one, armed for the current settings and the current cutout of a
\* mounted view; every earlier generation is cancelled, in flight or not.
C25_OnlyLatestNotCancelled ==
    \A g \in 1..Len(gens) :
        /\ g < Len(gens) => gens[g].cancelled
        /\ (Active(g) /\ ~gens[g].cancelled) =>
              /\ g = Len(gens)
              /\ Mounted
              /\ gens[g].settings = settings
              /\ gens[g].run = state.original[2]
              /\ state.cutout = CutoutUrl(gens[g].run)

\* C25 witness: two generations overlap in flight, the earlier cancelled,
\* the latest not.
C25_Witness ==
    /\ Len(gens) = 2
    /\ gens[1].phase \in {"loading", "encoding"}
    /\ gens[1].cancelled
    /\ gens[2].phase \in {"loading", "encoding"}
    /\ ~gens[2].cancelled
    /\ gens[1].run = gens[2].run

\* Generation g has completed, with success or with failure
Completed(g) == gens[g].phase \in {"resolved", "rejected"}

\* The flag is up while a generation that is not cancelled is in flight, and
\* down once the latest generation of the mounted view has completed, the
\* displayed URL being its output when it succeeded
C26_FlagTracks ==
    /\ \A g \in 1..Len(gens) :
          (InFlight(g) /\ ~gens[g].cancelled) => regenerating
    /\ (Mounted /\ gens # <<>> /\ Completed(Len(gens))) =>
          /\ ~regenerating
          /\ gens[Len(gens)].phase = "resolved" =>
                /\ stickerUrl = gens[Len(gens)].url
                /\ stickerUrl \in live

\* C26: regenerating is true whenever a generation that is not cancelled
\* is in flight; a latest generation that is armed either is superseded
\* (the settings change or the view unmounts) or completes, and once it has
\* completed the flag is false and stays false while the settings stay,
\* with stickerUrl holding its output when it succeeded.
C26_RegeneratingTracksLatest ==
    /\ []C26_FlagTracks
    /\ \A g \in 1..MaxGens :
          (g <= Len(gens) /\ Active(g) /\ ~gens[g].cancelled)
            ~> (g <= Len(gens) /\
                  (gens[g].cancelled \/ (Completed(g) /\ ~regenerating)))

\* C26 witness: the latest generation has succeeded and is displayed with
\* the flag down, while an earlier, cancelled generation is still in flight.
C26_Witness ==
    /\ Mounted
    /\ Len(gens) = 2
    /\ gens[2].phase = "resolved"
    /\ ~gens[2].cancelled
    /\ stickerUrl = gens[2].url
    /\ ~regenerating
    /\ InFlight(1)
    /\ gens[1].cancelled

\* C27: once the user has reset to idle and every generation in flight has
\* completed, every object URL created so far (originals, cutouts and
\* generated outputs, the displayed one included) has been revoked.
C27_NoUrlOutlivesSession ==
    (state.status = "idle" /\ \A g \in 1..Len(gens) : ~InFlight(g)) =>
        live = {}

---------------------------------------------------------------------------
(* Properties of the upload status machine *)

\* The statuses of ProcessingState that the program reaches
ReachedStatuses == {"idle", "removing-bg", "done", "error"}

\* The original's URL of upload n is live exactly while n is the current
\* upload and the status is removing-bg or done
C28_OriginalLive ==
    /\ state.status \in ReachedStatuses
    /\ \A n \in 1..uploads :
          OriginalUrl(n) \in live <=>
              (n = uploads /\ state.status \in {"removing-bg", "done"})
    /\ \A n \in 1..MaxUploads : n > uploads => OriginalUrl(n) \notin live \cup revoked

\* The steps of the status machine
C28_Step ==
    /\ uploads' # uploads =>
          /\ state.status = "idle" /\ state'.status = "removing-bg"
          /\ uploads' = uploads + 1
          /\ live' = live \cup {OriginalUrl(uploads')}
    /\ state'.status # state.status =>
          \/ /\ state.status = "idle" /\ state'.status = "removing-bg"
             /\ uploads' = uploads + 1
          \/ /\ state.status = "removing-bg" /\ state'.status = "error"
             /\ OriginalUrl(uploads) \in revoked'
             /\ live' = live \ {OriginalUrl(uploads)}
          \/ /\ state.status = "removing-bg" /\ state'.status = "done"
             /\ state'.original = OriginalUrl(uploads)
             /\ state'.cutout = CutoutUrl(uploads)
             /\ {state'.original, state'.cutout} \subseteq live'
          \/ /\ state.status \in {"done", "error"} /\ state'.status = "idle"
    /\ state.status = "idle" /\ state'.status = "idle" =>
          /\ live' = live
          /\ uploads' = uploads
    /\ ENABLED Reset => state.status \in {"done", "error"}
    /\ Reset => state'.status = "idle"

\* C28: the original's URL is live exactly while the status is removing-bg
\* or done; a step that stays in idle (a refused file among them) creates
\* no URL; a failed import or background removal revokes the original and
\* moves to error; success moves to done with original and cutout; reset
\* returns to idle; creating-sticker is never the status.
C28_UploadMachine == []C28_OriginalLive /\ [][C28_Step]_vars

\* C28 witness: the second upload has failed after the first one was reset;
\* both originals are revoked.
C28_Witness ==
    /\ state.status = "error"
    /\ uploads = 2
    /\ {OriginalUrl(1), OriginalUrl(2)} \subseteq revoked
    /\ CutoutUrl(1) \in revoked

\* C29: once the status is done or error, the progress callback that the
\* current run of processImage subscribed is no longer subscribed.
C29_SubscriptionReleased ==
    state.status \in {"done", "error"} => uploads \notin subs

\* A step outside removing-bg that changes the state is a reset or an
\* accepted upload; a step inside removing-bg that changes the percentage
\* shows the rounded update, which is not below the one shown when the
\* update is not below the one before
C30_Step ==
    /\ (state.status # "removing-bg" /\ state' # state) =>
          \/ Reset
          \/ ProcessImage(TRUE)
    /\ (state.status = "removing-bg" /\ state'.status = "removing-bg"
          /\ state' # state) =>
          \E p \in ProgressChoices :
              /\ state' = [state EXCEPT !.progress = Round2(p)]
              /\ \A q \in ProgressChoices \cup {0} :
                    (q <= p /\ state.progress = Round2(q)) =>
                        state'.progress >= state.progress

\* C30: a progress update changes the state only while the status is
\* removing-bg (in idle, done and error the state changes by reset and by
\* upload only), and there the displayed percentage is the rounded update
\* and does not decrease when the updates do not decrease.
C30_ProgressOnlyWhileRemoving == [][C30_Step]_vars

\* C30 witness: a callback is still subscribed while the status is done, so
\* an update can arrive there.
C30_Witness ==
    /\ state.status = "done"
    /\ stickerUrl # NoUrl
    /\ \E n \in subs, p \in ProgressChoices : ENABLED Progress(n, p)

============================================================================
